---- MODULE Spec2Model ----
(***************************************************************************)
(* Workflow engine of the multi-agent construction system:                 *)
(* the stage graph, the gate approvals, the input aggregation and the      *)
(* recursive stage advancement of WorkflowManager (workflow_engine.py),    *)
(* driven by the HTTP handlers of backend/main.py, with the agents of      *)
(* adk_core as the capabilities the stages invoke.                         *)
(***************************************************************************)
EXTENDS Integers, Sequences, FiniteSets, TLC

(***************************************************************************)
(* Bounds of the model.                                                    *)
(***************************************************************************)
\* number of requests (HTTP calls / engine calls) one behaviour may issue
MaxTasks == 2
\* number of external service failures (LLM / image / HTTP API) per behaviour
MaxFailures == 1
\* intake payloads (0 stands for the empty mapping {})
NumPayloads == 1

None == "None"
NoRecord == [approved_by |-> "nobody", approved |-> FALSE]

Tasks == 1..MaxTasks
Payloads == 1..NumPayloads
\* the project ids the requests name (0 stands for "no project")
ProjectIds == {1}

(***************************************************************************)
(* The static stage graph.                                                 *)
(***************************************************************************)
WORKFLOW_STAGES ==
    [s \in 1..18 |->
      CASE s = 1  -> [agents |-> <<"briefing_constraint_extraction_agent">>, gate_after |-> "G0"]
        [] s = 2  -> [agents |-> <<"data_harvester_agent", "geospatial_site_context_agent">>, gate_after |-> None]
        [] s = 3  -> [agents |-> <<"risk_mitigation_agent">>, gate_after |-> None]
        [] s = 4  -> [agents |-> <<"optioneering_strategy_agent">>, gate_after |-> "G1"]
        [] s = 5  -> [agents |-> <<"massing_facade_agent">>, gate_after |-> None]
        [] s = 6  -> [agents |-> <<"space_planning_adjacency_agent", "interior_design_agent">>, gate_after |-> "G2"]
        [] s = 7  -> [agents |-> <<"structural_design_agent">>, gate_after |-> None]
        [] s = 8  -> [agents |-> <<"mep_systems_agent", "sustainability_energy_agent">>, gate_after |-> "G3"]
        [] s = 9  -> [agents |-> <<"cost_schedule_agent">>, gate_after |-> None]
        [] s = 10 -> [agents |-> <<"bim_cad_documentation_agent", "architectural_detailing_agent", "visualization_agent">>, gate_after |-> "G4"]
        [] s = 11 -> [agents |-> <<"clash_coordination_agent">>, gate_after |-> None]
        [] s = 12 -> [agents |-> <<"code_standards_agent", "compliance_and_construction_agent">>, gate_after |-> "G5"]
        [] s = 13 -> [agents |-> <<"procurement_supply_chain_agent">>, gate_after |-> None]
        [] s = 14 -> [agents |-> <<"site_logistics_safety_agent">>, gate_after |-> None]
        [] s = 15 -> [agents |-> <<"construction_monitoring_cv_agent">>, gate_after |-> None]
        [] s = 16 -> [agents |-> <<"change_control_claims_agent">>, gate_after |-> None]
        [] s = 17 -> [agents |-> <<"commissioning_asset_agent">>, gate_after |-> "G6"]
        [] OTHER  -> [agents |-> <<"bim_cad_documentation_agent">>, gate_after |-> None]]

StageIds == DOMAIN WORKFLOW_STAGES

\* the keys of DECISION_GATES in declaration (dict insertion) order
GateOrder == <<"G0", "G1", "G2", "G3", "G4", "G5", "G6">>

GateIds == {GateOrder[i] : i \in 1..Len(GateOrder)}

DECISION_GATES ==
    [g \in GateIds |->
      CASE g = "G0" -> [stage_before |-> 1]
        [] g = "G1" -> [stage_before |-> 4]
        [] g = "G2" -> [stage_before |-> 6]
        [] g = "G3" -> [stage_before |-> 8]
        [] g = "G4" -> [stage_before |-> 10]
        [] g = "G5" -> [stage_before |-> 12]
        [] OTHER    -> [stage_before |-> 18]]

(***************************************************************************)
(* The artifact store: a project directory holds one sub-directory per     *)
(* stage; a file is named by its directory, its stem and its suffix.       *)
(***************************************************************************)
File(d, stem, ext) ==
    [dir |-> d, stem |-> stem, ext |-> ext, parses |-> TRUE, decodes |-> TRUE]

\* a file whose text json.load cannot parse (json.JSONDecodeError)
Unparseable(f) == [f EXCEPT !.parses = FALSE]

\* a file whose bytes are not text in the encoding open(path, 'r') reads with:
\* reading it raises UnicodeDecodeError, which is not a JSONDecodeError
Undecodable(f) == [f EXCEPT !.parses = FALSE, !.decodes = FALSE]

SamePath(f, g) == f.dir = g.dir /\ f.stem = g.stem /\ f.ext = g.ext

\* open(path, "w"): a file written replaces the file of that path
WriteFiles(files, writes) ==
    {f \in files : ~\E g \in writes : SamePath(f, g)} \cup writes

Json(d, stem) == File(d, stem, "json")

Png(d, stem) == File(d, stem, "png")

(***************************************************************************)
(* The agents.  process_request checks that the artifacts it needs are in  *)
(* its input (or on disk), calls the generative service, and writes its    *)
(* artifacts under a stage directory named in its own code.  An outcome    *)
(* is the status it returns, the files it has written by then, and         *)
(* whether an external service failed on the way.                          *)
(***************************************************************************)
Outcome(status, writes, fail) == [status |-> status, writes |-> writes, fail |-> fail]

Ok(writes) == Outcome("success", writes, FALSE)

Err(writes) == Outcome("error", writes, TRUE)

\* user_input.get(k, {}) values that all([...]) tests before the service call
AgentNeeds(a, sid) ==
    CASE a = "briefing_constraint_extraction_agent" -> {}
      [] a = "data_harvester_agent" -> {}
      [] a = "geospatial_site_context_agent" -> {}
      [] a = "risk_mitigation_agent" -> {"project_charter", "constraints", "geospatial_analysis"}
      [] a = "optioneering_strategy_agent" ->
            {"project_charter", "constraints", "geospatial_analysis", "risk_assessment_report"}
      [] a = "massing_facade_agent" ->
            {"project_charter", "constraints", "geospatial_analysis", "strategic_options"}
      [] a = "space_planning_adjacency_agent" ->
            {"project_charter", "constraints", "geospatial_analysis", "conceptual_massing_plan"}
      [] a = "interior_design_agent" -> {"conceptual_floor_plan"}
      [] a = "structural_design_agent" ->
            {"project_charter", "constraints", "geospatial_analysis", "conceptual_floor_plan"}
      [] a = "mep_systems_agent" ->
            {"project_charter", "constraints", "geospatial_analysis", "conceptual_floor_plan"}
      [] a = "sustainability_energy_agent" ->
            {"project_charter", "constraints", "climate_data", "conceptual_massing_plan",
             "conceptual_floor_plan"}
      [] a = "cost_schedule_agent" ->
            {"project_charter", "constraints", "geospatial_analysis", "conceptual_massing_plan",
             "conceptual_floor_plan", "preliminary_structural_design", "preliminary_mep_design"}
      [] a = "bim_cad_documentation_agent" ->
            IF sid = 10
            THEN {"project_charter", "conceptual_massing_plan", "conceptual_floor_plan",
                  "preliminary_structural_design", "preliminary_mep_design", "cost_schedule_baseline"}
            ELSE {"project_charter", "bim_cad_documentation_detailed_plan", "commissioning_asset_plan"}
      [] a = "architectural_detailing_agent" -> {"conceptual_floor_plan", "conceptual_massing_plan"}
      [] a = "visualization_agent" -> {"conceptual_massing_plan", "conceptual_floor_plan"}
      [] a = "clash_coordination_agent" -> {"bim_cad_documentation_detailed_plan"}
      [] a = "code_standards_agent" ->
            {"project_charter", "constraints", "geospatial_analysis", "bim_cad_documentation_detailed_plan"}
      [] a = "compliance_and_construction_agent" -> {"conceptual_floor_plan"}
      [] a = "procurement_supply_chain_agent" -> {"project_charter", "constraints", "cost_schedule_baseline"}
      [] a = "site_logistics_safety_agent" ->
            {"project_charter", "constraints", "geospatial_analysis", "conceptual_massing_plan",
             "conceptual_floor_plan"}
      [] a = "construction_monitoring_cv_agent" ->
            {"project_charter", "conceptual_massing_plan", "conceptual_floor_plan",
             "bim_cad_documentation_detailed_plan"}
      [] a = "change_control_claims_agent" -> {"project_charter", "cost_schedule_baseline"}
      [] a = "commissioning_asset_agent" -> {"project_charter", "bim_cad_documentation_detailed_plan"}
      [] OTHER -> {}

\* files the agent reads from the project directory itself, failing when absent
AgentNeedsFiles(a) ==
    CASE a = "data_harvester_agent" -> {Json(1, "project_charter")}
      [] a = "geospatial_site_context_agent" -> {Json(2, "geocoding_data")}
      [] OTHER -> {}

\* agents that substitute stand-in data for missing inputs instead of failing
AgentFallsBack(a, sid) ==
    \/ a \in {"change_control_claims_agent", "commissioning_asset_agent"}
    \/ a = "bim_cad_documentation_agent" /\ sid = 18

\* the outcomes of an agent whose inputs are complete, after its service calls
AgentCompletions(a, sid) ==
    CASE a = "briefing_constraint_extraction_agent" ->
            {Err({}), Ok({Json(1, "project_charter"), Json(1, "constraints")})}
      [] a = "data_harvester_agent" ->
            {Err({}), Ok({Json(2, "climate_data"), Json(2, "elevation_data"), Json(2, "geocoding_data")})}
      [] a = "geospatial_site_context_agent" ->
            {Err({}), Err({Json(2, "geospatial_analysis")}),
             Ok({Json(2, "geospatial_analysis"), Png(2, "site_plan")})}
      [] a = "risk_mitigation_agent" -> {Err({}), Ok({Json(3, "risk_assessment_report")})}
      [] a = "optioneering_strategy_agent" -> {Err({}), Ok({Json(4, "strategic_options")})}
      [] a = "massing_facade_agent" ->
            {Err({}), Ok({Png(5, "plan_2d"), File(5, "model", "glb"), File(5, "video", "txt"),
                          Json(5, "conceptual_massing_plan")})}
      [] a = "space_planning_adjacency_agent" ->
            {Err({}), Err({Json(6, "conceptual_floor_plan")}),
             Ok({Json(6, "conceptual_floor_plan"), Png(6, "floor_plan")})}
      [] a = "interior_design_agent" ->
            {Outcome("success", {}, TRUE),
             Ok({Png(6, "furniture_layout"), Png(6, "rcp_drawing"), Png(6, "interior_elevation"),
                 Png(6, "lighting_plan"), Png(6, "finishing_schedule"), Png(6, "millwork_drawing"),
                 Png(6, "interior_plumbing_electrical_layout")})}
      [] a = "structural_design_agent" ->
            {Err({}), Err({Json(7, "preliminary_structural_design")}),
             Ok({Json(7, "preliminary_structural_design"), Png(7, "structural_drawing")})}
      [] a = "mep_systems_agent" ->
            {Err({}), Err({Json(7, "preliminary_mep_design")}),
             Ok({Json(7, "preliminary_mep_design"), Png(7, "mep_drawing")})}
      [] a = "sustainability_energy_agent" -> {Err({}), Ok({Json(15, "sustainability_energy_analysis")})}
      [] a = "cost_schedule_agent" -> {Err({}), Ok({Json(8, "cost_schedule_baseline")})}
      [] a = "bim_cad_documentation_agent" ->
            IF sid = 10
            THEN {Err({}), Ok({Json(10, "bim_cad_documentation_plan")})}
            ELSE {Err({}), Ok({Json(18, "final_digital_twin_handover")})}
      [] a = "architectural_detailing_agent" ->
            {Outcome("success", {}, TRUE),
             Ok({Png(8, "elevation_drawing"), Png(8, "cross_section_drawing"), Png(8, "roof_plan_drawing")})}
      [] a = "visualization_agent" ->
            {Ok({Json(10, "virtual_tour"), Json(10, "mood_board"), Json(10, "3d_conceptual_sketch"),
                 Json(10, "photorealistic_rendering"), Json(10, "vr_walkthrough")})}
      [] a = "clash_coordination_agent" -> {Err({}), Ok({Json(9, "clash_detection_report")})}
      [] a = "code_standards_agent" -> {Err({}), Ok({Json(10, "compliance_check_report")})}
      [] a = "compliance_and_construction_agent" ->
            {Outcome("success", {}, TRUE),
             Ok({Png(12, "code_compliance_sheet"), Png(12, "shop_drawing"), Png(12, "demolition_plan"),
                 Png(12, "phasing_drawing")})}
      [] a = "procurement_supply_chain_agent" -> {Err({}), Ok({Json(11, "preliminary_procurement_plan")})}
      [] a = "site_logistics_safety_agent" -> {Err({}), Ok({Json(12, "site_logistics_safety_plan")})}
      [] a = "construction_monitoring_cv_agent" -> {Err({}), Ok({Json(13, "construction_progress_report")})}
      [] a = "change_control_claims_agent" -> {Err({}), Ok({Json(16, "change_claims_impact_analysis")})}
      [] a = "commissioning_asset_agent" -> {Err({}), Ok({Json(17, "commissioning_asset_plan")})}
      [] OTHER -> {}

\* the outcome with the stand-in data: no text-generation call is made
AgentFallbackCompletions(a, sid) == {o \in AgentCompletions(a, sid) : o.status = "success"}

\* agents whose process_request has no await on an external service
AgentNeverAwaits(a) == a = "visualization_agent"

\* the agent names the stage graph declares
AgentNames ==
    UNION {{WORKFLOW_STAGES[s].agents[i] : i \in 1..Len(WORKFLOW_STAGES[s].agents)} : s \in StageIds}

(***************************************************************************)
(* State.                                                                  *)
(*   store   the project store: per project id, whether its directory      *)
(*           exists, the payload in initial_project_data.json (0: no       *)
(*           file), the files of its stage directories and the gate        *)
(*           approval files                                                *)
(*   tasks   the requests: each one owns a WorkflowManager and the chain   *)
(*           of nested run_stage / approve_gate coroutine frames.  A       *)
(*           request runs on the event loop without interruption until     *)
(*           an agent awaits an external service, and again from the       *)
(*           service's answer to the next such await                       *)
(*   registry     the agent names the loader has registered at startup     *)
(*   failures     external service failures so far                         *)
(*   last_status  the response of the latest status request, while no      *)
(*                other step has been taken since                          *)
(***************************************************************************)
VARIABLES store, tasks, failures, last_status, registry

vars == <<store, tasks, failures, last_status, registry>>

\* a value of the input mapping: the engine's stage id, the intake payload,
\* the running result list, or the parsed content of stage_<num>/<stem>.json
Val(tag, num) == [tag |-> tag, num |-> num]

\* the empty mapping, the empty payload and stage id 0 are falsy (num 0)
Truthy(v) == v.num # 0

TruthyKeys(inp) == {k \in DOMAIN inp : Truthy(inp[k])}

\* a coroutine frame: run_stage(stage) or approve_gate(gate, rec), its result
\* list, and the call it made
Frame(fn, stage, gate, rec) ==
    [fn |-> fn, stage |-> stage, gate |-> gate, rec |-> rec, results |-> <<>>,
     called |-> 0, calledGate |-> None]

\* an entry of a request's history
Event(ev, stage, gate, n) == [ev |-> ev, stage |-> stage, gate |-> gate, n |-> n]

EmptyInput == [k \in {} |-> Val("none", 0)]

\* agent n of a stage was handed the list seen as stage_results and has
\* returned a dict with this status from process_request
Returned(stage, n, seen, status) == [stage |-> stage, n |-> n, seen |-> seen, status |-> status]

NewTask ==
    [state |-> "new", kind |-> "none", proj |-> 0, initial_data |-> 0, stack |-> <<>>,
     pc |-> "none", idx |-> 0, input |-> EmptyInput, trace |-> <<>>,
     resp |-> "none", message |-> "none", results |-> <<>>,
     call |-> Frame("none", 0, None, NoRecord), wrote |-> {}, outcomes |-> <<>>]

NoStatus == [proj |-> 0, stages |-> [s \in StageIds |-> "none"], pending_gate |-> None]

NoProject ==
    [exists |-> FALSE, initial_file |-> 0, files |-> {}, approvals |-> [g \in GateIds |-> NoRecord]]

SystemRecord == [approved_by |-> "system", approved |-> TRUE]

\* the bodies a caller may post to the approve endpoint
UserRecords == {[approved_by |-> "user", approved |-> b] : b \in BOOLEAN}

\* gate ids a caller names: the first gate, a middle one, the last one and an
\* undeclared one (the other gates are approved by run_stage itself)
RequestGateIds == {"G0", "G3", "G6", "G7"}

\* stage ids a direct caller of run_stage passes: the last stage, which no gate
\* leads to, and an undeclared one
RequestStageIds == {18, 19}

Init ==
    /\ store = [p \in ProjectIds |-> NoProject]
    /\ tasks = [t \in Tasks |-> NewTask]
    /\ failures = 0
    /\ last_status = NoStatus
    /\ registry = AgentNames

(***************************************************************************)
(* WorkflowManager.__init__ / _initialize_project                          *)
(***************************************************************************)
\* a faulty variant: the stage directories are created afresh
EnsureStageDirsAfresh(files) == {}

\* mkdir(exist_ok=True) of a stage directory keeps the files it holds
EnsureStageDirs(files) == files

\* a faulty variant: constructing the manager starts the gates over
InitializeProjectResetGates(proj, initial_data) ==
    [exists |-> TRUE,
     initial_file |-> IF initial_data # 0 THEN initial_data ELSE proj.initial_file,
     files |-> EnsureStageDirs(proj.files),
     approvals |-> [g \in GateIds |-> NoRecord]]

\* the project directory, the payload file when a payload is given, the stage directories
InitializeProject(proj, initial_data) ==
    [exists |-> TRUE,
     initial_file |-> IF initial_data # 0 THEN initial_data ELSE proj.initial_file,
     files |-> EnsureStageDirs(proj.files),
     approvals |-> proj.approvals]

(***************************************************************************)
(* WorkflowManager._get_pending_gate                                       *)
(***************************************************************************)
RECURSIVE PendingGateFrom(_, _)
PendingGateFrom(i, approvals) ==
    IF i > Len(GateOrder) THEN None
    ELSE IF approvals[GateOrder[i]] = NoRecord THEN GateOrder[i]
    ELSE PendingGateFrom(i + 1, approvals)

\* a faulty variant: the scan misses the first declared gate
GetPendingGateFromSecond(approvals) == PendingGateFrom(2, approvals)

GetPendingGate(approvals) == PendingGateFrom(1, approvals)

(***************************************************************************)
(* WorkflowManager.get_project_status                                      *)
(***************************************************************************)
\* the files of a stage directory that yield an entry of the artifacts list
ListedArtifacts(files, s) == {f \in files : f.dir = s /\ f.ext \in {"json", "txt", "md"}}

StageStatus(files, s, unlocked_until_stage) ==
    LET artifacts == ListedArtifacts(files, s)
        status0 == IF artifacts # {} THEN "Completed"
                   ELSE IF s <= unlocked_until_stage THEN "Pending"
                   ELSE "Locked"
    IN IF s = 1 /\ artifacts = {} THEN "Pending" ELSE status0

GetProjectStatus(id, proj) ==
    LET pending_gate == GetPendingGate(proj.approvals)
        unlocked_until_stage ==
            IF pending_gate # None THEN DECISION_GATES[pending_gate].stage_before ELSE 18
    IN [proj |-> id,
        stages |-> [s \in StageIds |-> StageStatus(proj.files, s, unlocked_until_stage)],
        pending_gate |-> pending_gate]

(***************************************************************************)
(* WorkflowManager._gather_inputs_for_stage                                *)
(***************************************************************************)
JsonFiles(files, i) == {g \in files : g.dir = i /\ g.ext = "json"}

JsonStems(files, i) == {f.stem : f \in JsonFiles(files, i)}

\* json.load(f), or {} on JSONDecodeError
Loaded(files, i, stem) ==
    IF \E f \in JsonFiles(files, i) : f.stem = stem /\ f.parses
    THEN Val("artifact", i) ELSE Val("artifact", 0)

RECURSIVE GatherFrom(_, _, _, _)
GatherFrom(i, stage_id, files, gathered_inputs) ==
    IF i >= stage_id THEN gathered_inputs
    ELSE GatherFrom(i + 1, stage_id, files,
                    [stem \in JsonStems(files, i) |-> Loaded(files, i, stem)] @@ gathered_inputs)

\* json.load(f) raises an exception that the except clause does not name
GatherRaises(files, stage_id) ==
    \E i \in 1..(stage_id - 1) : \E f \in JsonFiles(files, i) : ~f.decodes

GatherInputsForStage(files, initial_data, stage_id) ==
    GatherFrom(1, stage_id, files,
               [k \in {"initial_data", "stage_id"} |->
                   IF k = "initial_data" THEN Val("initial_data", initial_data)
                   ELSE Val("stage_id", stage_id)])

\* agent_input = current_input.copy(); agent_input["stage_results"] = stage_results
AgentInput(current_input, stage_results) ==
    [k \in {"stage_results"} |-> Val("stage_results", Len(stage_results))] @@ current_input

(***************************************************************************)
(* process_request of the agents: what happens before the first await,     *)
(* and what happens once the awaited service calls have returned.          *)
(***************************************************************************)
\* the value an agent reads with user_input.get('stage_id')
InputStageId(inp) ==
    IF "stage_id" \in DOMAIN inp /\ inp["stage_id"].tag = "stage_id" THEN inp["stage_id"].num ELSE 0

AgentReady(a, inp, files) ==
    /\ AgentNeeds(a, InputStageId(inp)) \subseteq TruthyKeys(inp)
    /\ AgentNeedsFiles(a) \subseteq files

\* outcomes reached without suspending; the empty set: the agent awaits a service
AgentImmediate(a, inp, files) ==
    LET sid == InputStageId(inp) IN
    IF a = "bim_cad_documentation_agent" /\ "stage_id" \notin TruthyKeys(inp)
    THEN {Outcome("raise", {}, FALSE)}
    ELSE IF a = "bim_cad_documentation_agent" /\ sid \notin {10, 18}
    THEN {Outcome("error", {}, FALSE)}
    ELSE IF ~AgentReady(a, inp, files)
    THEN IF ~AgentFallsBack(a, sid) THEN {Outcome("error", {}, FALSE)}
         ELSE IF a = "bim_cad_documentation_agent" THEN {}
         ELSE AgentFallbackCompletions(a, sid)
    ELSE IF AgentNeverAwaits(a) THEN AgentCompletions(a, sid)
    ELSE {}

\* outcomes once the awaited service calls have returned
AgentResumed(a, inp, files) ==
    IF AgentReady(a, inp, files)
    THEN AgentCompletions(a, InputStageId(inp))
    ELSE AgentFallbackCompletions(a, InputStageId(inp))

\* adk_system.get(agent_name): the agents the loader has registered
Registry == registry

(***************************************************************************)
(* A machine is a request together with its project's store entry: the     *)
(* steps below are the pieces of run_stage and approve_gate between which  *)
(* no await suspends the coroutine chain.                                  *)
(***************************************************************************)
Machine(proj, task) == [proj |-> proj, task |-> task]

TopOf(task) == task.stack[Len(task.stack)]

\* the dependency order run_stage builds: stage 2 spelled out, others as declared
OrderedAgents(stage_id) ==
    IF stage_id = 2 THEN <<"data_harvester_agent", "geospatial_site_context_agent">>
    ELSE WORKFLOW_STAGES[stage_id].agents

\* a frame calls run_stage / approve_gate: the callee's frame goes on top
Push(stack, frame) ==
    LET n == Len(stack) IN
    IF n = 0 THEN <<frame>>
    ELSE Append([stack EXCEPT ![n].called = frame.stage, ![n].calledGate = frame.gate], frame)

\* the answer to the caller when the outermost coroutine raises
ErrorResponse(kind) ==
    IF kind = "create" THEN "500" ELSE IF kind = "approve" THEN "404" ELSE "raised"

\* the answer to the caller when the outermost coroutine returns
OkResponse(kind) ==
    IF kind = "create" THEN "201" ELSE IF kind = "approve" THEN "200" ELSE "returned"

\* a faulty variant: an exception that leaves approve_gate takes the approval
\* file of the request's gate with it
RaiseRollsBack(m) ==
    LET g == m.task.call.gate
        left == [m EXCEPT !.task.state = "done", !.task.stack = <<>>, !.task.pc = "none",
                          !.task.idx = 0, !.task.input = EmptyInput,
                          !.task.trace = Append(@, Event("raise", 0, None, 0)),
                          !.task.resp = ErrorResponse(m.task.kind)]
    IN IF g \in GateIds THEN [left EXCEPT !.proj.approvals[g] = NoRecord] ELSE left

\* an exception leaves every frame of the chain: nothing in the engine catches it
Raise(m) ==
    [m EXCEPT !.task.state = "done", !.task.stack = <<>>, !.task.pc = "none", !.task.idx = 0,
              !.task.input = EmptyInput,
              !.task.trace = Append(@, Event("raise", 0, None, 0)),
              !.task.resp = ErrorResponse(m.task.kind)]

\* a faulty variant: the inputs are aggregated before the stage is looked up
RunStageEnterGatherFirst(m) ==
    LET stage_id == TopOf(m.task).stage
        gathered == [m EXCEPT
            !.task.input = GatherInputsForStage(m.proj.files, m.task.initial_data, stage_id),
            !.task.idx = 1,
            !.task.pc = "agents",
            !.task.trace = Append(@, Event("run", stage_id, None, 0))]
    IN IF GatherRaises(m.proj.files, stage_id) THEN Raise(m)
       ELSE IF stage_id \notin StageIds THEN Raise(gathered) ELSE gathered

\* run_stage: the stage lookup and the input aggregation
RunStageEnter(m) ==
    LET stage_id == TopOf(m.task).stage IN
    IF stage_id \notin StageIds
    THEN Raise(m)
    ELSE IF GatherRaises(m.proj.files, stage_id)
    THEN Raise(m)
    ELSE [m EXCEPT
            !.task.input = GatherInputsForStage(m.proj.files, m.task.initial_data, stage_id),
            !.task.idx = 1,
            !.task.pc = "agents",
            !.task.trace = Append(@, Event("run", stage_id, None, 0))]

\* a faulty variant: the result of an agent is put in front of stage_results
FinishPrepend(m, o) ==
    IF o.status = "raise"
    THEN Raise(m)
    ELSE [m EXCEPT !.proj.files = WriteFiles(@, o.writes),
                   !.task.wrote = IF o.writes = {} THEN @ ELSE @ \cup {TopOf(m.task).stage},
                   !.task.stack[Len(m.task.stack)].results = <<o.status>> \o @,
                   !.task.trace = Append(@, Event("result", TopOf(m.task).stage, None, m.task.idx)),
                   !.task.outcomes =
                       Append(@, Returned(TopOf(m.task).stage, m.task.idx, TopOf(m.task).results,
                                          o.status)),
                   !.task.idx = @ + 1,
                   !.task.state = "running"]

\* the result of one agent is appended to stage_results and the loop moves on
Finish(m, o) ==
    IF o.status = "raise"
    THEN Raise(m)
    ELSE [m EXCEPT !.proj.files = WriteFiles(@, o.writes),
                   !.task.wrote = IF o.writes = {} THEN @ ELSE @ \cup {TopOf(m.task).stage},
                   !.task.stack[Len(m.task.stack)].results = Append(@, o.status),
                   !.task.trace = Append(@, Event("result", TopOf(m.task).stage, None, m.task.idx)),
                   !.task.outcomes =
                       Append(@, Returned(TopOf(m.task).stage, m.task.idx, TopOf(m.task).results,
                                          o.status)),
                   !.task.idx = @ + 1,
                   !.task.state = "running"]

\* a faulty variant: looking up an agent that is not registered raises
AgentCallStrict(m) ==
    LET top == TopOf(m.task)
        agent_name == OrderedAgents(top.stage)[m.task.idx]
        agent_input == AgentInput(m.task.input, top.results)
        now == AgentImmediate(agent_name, agent_input, m.proj.files)
        called == [m EXCEPT !.task.trace = Append(@, Event("call", top.stage, None, m.task.idx))]
    IN IF agent_name \notin Registry
       THEN Raise(m)
       ELSE IF now = {}
       THEN [called EXCEPT !.task.state = "awaiting"]
       ELSE Finish(called, CHOOSE o \in now : TRUE)

\* run_stage: one turn of the loop over ordered_agents, up to the agent's first await
AgentCall(m) ==
    LET top == TopOf(m.task)
        agent_name == OrderedAgents(top.stage)[m.task.idx]
        agent_input == AgentInput(m.task.input, top.results)
        now == AgentImmediate(agent_name, agent_input, m.proj.files)
        called == [m EXCEPT !.task.trace = Append(@, Event("call", top.stage, None, m.task.idx))]
    IN IF agent_name \notin Registry
       THEN [m EXCEPT !.task.idx = @ + 1]
       ELSE IF now = {}
       THEN [called EXCEPT !.task.state = "awaiting"]
       ELSE Finish(called, CHOOSE o \in now : TRUE)

\* a faulty variant: a stage without a gate returns without running its successor
RunStageAdvanceGateOnly(m) ==
    LET top == TopOf(m.task)
        gate_id == WORKFLOW_STAGES[top.stage].gate_after
    IN IF gate_id # None
       THEN [m EXCEPT !.task.stack = Push(@, Frame("approve_gate", 0, gate_id, SystemRecord)),
                      !.task.pc = "enter"]
       ELSE [m EXCEPT !.task.pc = "return"]

\* run_stage: after the loop, the gate after the stage is approved or the next stage is run
RunStageAdvance(m) ==
    LET top == TopOf(m.task)
        gate_id == WORKFLOW_STAGES[top.stage].gate_after
        next_stage_id == top.stage + 1
    IN IF gate_id # None
       THEN [m EXCEPT !.task.stack = Push(@, Frame("approve_gate", 0, gate_id, SystemRecord)),
                      !.task.pc = "enter"]
       ELSE IF next_stage_id \in StageIds
       THEN [m EXCEPT !.task.stack = Push(@, Frame("run_stage", next_stage_id, None, NoRecord)),
                      !.task.pc = "enter"]
       ELSE [m EXCEPT !.task.pc = "return"]

\* a faulty variant: a record with approved = false does not start the next stage
ApproveGateUnlessRejected(m) ==
    LET top == TopOf(m.task) IN
    IF top.gate \notin GateIds
    THEN Raise(m)
    ELSE LET next_stage_id == DECISION_GATES[top.gate].stage_before + 1
             written == [m EXCEPT !.proj.approvals[top.gate] = top.rec,
                                  !.task.trace = Append(@, Event("approve", 0, top.gate, 0))]
         IN IF next_stage_id \in StageIds /\ top.rec.approved
            THEN [written EXCEPT
                    !.task.stack = Push(@, Frame("run_stage", next_stage_id, None, NoRecord)),
                    !.task.pc = "enter"]
            ELSE [written EXCEPT !.task.pc = "return"]

\* a faulty variant: an undeclared gate is taken for the end of the workflow
ApproveGateLenient(m) ==
    LET top == TopOf(m.task) IN
    IF top.gate \notin GateIds
    THEN [m EXCEPT !.task.pc = "return"]
    ELSE LET next_stage_id == DECISION_GATES[top.gate].stage_before + 1
             written == [m EXCEPT !.proj.approvals[top.gate] = top.rec,
                                  !.task.trace = Append(@, Event("approve", 0, top.gate, 0))]
         IN IF next_stage_id \in StageIds
            THEN [written EXCEPT
                    !.task.stack = Push(@, Frame("run_stage", next_stage_id, None, NoRecord)),
                    !.task.pc = "enter"]
            ELSE [written EXCEPT !.task.pc = "return"]

\* a faulty variant: a gate that has an approval record is not approved again
ApproveGateOnce(m) ==
    LET top == TopOf(m.task) IN
    IF top.gate \notin GateIds
    THEN Raise(m)
    ELSE IF m.proj.approvals[top.gate] # NoRecord
    THEN [m EXCEPT !.task.pc = "return"]
    ELSE LET next_stage_id == DECISION_GATES[top.gate].stage_before + 1
             written == [m EXCEPT !.proj.approvals[top.gate] = top.rec,
                                  !.task.trace = Append(@, Event("approve", 0, top.gate, 0))]
         IN IF next_stage_id \in StageIds
            THEN [written EXCEPT
                    !.task.stack = Push(@, Frame("run_stage", next_stage_id, None, NoRecord)),
                    !.task.pc = "enter"]
            ELSE [written EXCEPT !.task.pc = "return"]

\* a faulty variant: the first approval of a gate runs the stage before the
\* gate once more
ApproveGateRerunsStage(m) ==
    LET top == TopOf(m.task) IN
    IF top.gate \notin GateIds
    THEN Raise(m)
    ELSE LET stage_before == DECISION_GATES[top.gate].stage_before
             next_stage_id == IF m.proj.approvals[top.gate] = NoRecord THEN stage_before
                              ELSE stage_before + 1
             written == [m EXCEPT !.proj.approvals[top.gate] = top.rec,
                                  !.task.trace = Append(@, Event("approve", 0, top.gate, 0))]
         IN IF next_stage_id \in StageIds
            THEN [written EXCEPT
                    !.task.stack = Push(@, Frame("run_stage", next_stage_id, None, NoRecord)),
                    !.task.pc = "enter"]
            ELSE [written EXCEPT !.task.pc = "return"]

\* approve_gate: the gate lookup, the approval file, the stage after the gate
ApproveGate(m) ==
    LET top == TopOf(m.task) IN
    IF top.gate \notin GateIds
    THEN Raise(m)
    ELSE LET next_stage_id == DECISION_GATES[top.gate].stage_before + 1
             written == [m EXCEPT !.proj.approvals[top.gate] = top.rec,
                                  !.task.trace = Append(@, Event("approve", 0, top.gate, 0))]
         IN IF next_stage_id \in StageIds
            THEN [written EXCEPT
                    !.task.stack = Push(@, Frame("run_stage", next_stage_id, None, NoRecord)),
                    !.task.pc = "enter"]
            ELSE [written EXCEPT !.task.pc = "return"]

\* the message of the mapping the outermost coroutine returns
ReturnMessage(top) ==
    IF top.fn = "run_stage" THEN "completed"
    ELSE IF top.called # 0 THEN "Workflow continues" ELSE "Workflow complete"

\* a coroutine returns to the frame awaiting it, which returns in turn; the
\* outermost one answers the request
Return(m) ==
    LET top == TopOf(m.task)
        logged == [m EXCEPT !.task.trace = Append(@, Event("return", top.stage, top.gate, 0))]
    IN IF Len(m.task.stack) > 1
       THEN [logged EXCEPT !.task.stack = SubSeq(@, 1, Len(@) - 1)]
       ELSE [logged EXCEPT !.task.stack = <<>>, !.task.state = "done", !.task.pc = "none",
                           !.task.idx = 0, !.task.input = EmptyInput,
                           !.task.results = top.results,
                           !.task.resp = OkResponse(m.task.kind),
                           !.task.message = ReturnMessage(top)]

\* the next piece of code of a running request
Step(m) ==
    LET top == TopOf(m.task) IN
    IF m.task.pc = "return" THEN Return(m)
    ELSE IF top.fn = "approve_gate" THEN ApproveGate(m)
    ELSE IF m.task.pc = "enter" THEN RunStageEnter(m)
    ELSE IF m.task.idx <= Len(OrderedAgents(top.stage)) THEN AgentCall(m)
    ELSE RunStageAdvance(m)

\* the event loop runs the request until it awaits a service or answers
RECURSIVE Run(_)
Run(m) == IF m.task.state = "running" THEN Run(Step(m)) ELSE m

Started(kind, p, initial_data, frame) ==
    [NewTask EXCEPT !.state = "running", !.kind = kind, !.proj = p,
                    !.initial_data = initial_data, !.pc = "enter", !.stack = <<frame>>,
                    !.call = frame]

(***************************************************************************)
(* Requests.  Spec serves them one at a time: a request is accepted when   *)
(* no other request is in flight; status requests are also served while a  *)
(* request awaits a service.                                               *)
(***************************************************************************)
\* requests are issued in task order
MayStart(t) ==
    /\ tasks[t].state = "new"
    /\ \A u \in Tasks : u < t => tasks[u].state = "done"

\* what is kept of a request once the next one arrives
Answered == [NewTask EXCEPT !.state = "done"]

\* a faulty variant: every project id names the same directory
CommitShared(t, p, m) ==
    /\ store' = [q \in DOMAIN store |-> m.proj]
    /\ tasks' = [u \in Tasks |-> IF u = t THEN m.task
                                 ELSE IF tasks[u].state = "done" THEN Answered
                                 ELSE tasks[u]]
    /\ last_status' = NoStatus
    /\ UNCHANGED registry

\* the request goes on with the files of its own project directory
Commit(t, p, m) ==
    /\ store' = [store EXCEPT ![p] = m.proj]
    /\ tasks' = [u \in Tasks |-> IF u = t THEN m.task
                                 ELSE IF tasks[u].state = "done" THEN Answered
                                 ELSE tasks[u]]
    /\ last_status' = NoStatus
    /\ UNCHANGED registry

\* POST /projects: WorkflowManager(initial_data=...) under a fresh uuid, then run_stage(1)
CreateProject(t, payload) ==
    /\ MayStart(t)
    /\ \E p \in ProjectIds :
         /\ ~store[p].exists
         /\ Commit(t, p, Run(Machine(InitializeProject(store[p], payload),
                                     Started("create", p, payload,
                                             Frame("run_stage", 1, None, NoRecord)))))
    /\ UNCHANGED failures

\* POST /projects/{id}/approve/{gate}: WorkflowManager(project_id=id), then approve_gate
ApproveGateRequest(t, p, g, rec) ==
    /\ MayStart(t)
    /\ Commit(t, p, Run(Machine(InitializeProject(store[p], 0),
                                Started("approve", p, 0, Frame("approve_gate", 0, g, rec)))))
    /\ UNCHANGED failures

\* WorkflowManager(project_id=id).run_stage(s), called on the engine directly
RunStageRequest(t, p, s) ==
    /\ MayStart(t)
    /\ Commit(t, p, Run(Machine(InitializeProject(store[p], 0),
                                Started("run", p, 0, Frame("run_stage", s, None, NoRecord)))))
    /\ UNCHANGED failures

\* GET /projects/{id}: WorkflowManager(project_id=id).get_project_status()
GetProjectStatusRequest(p) ==
    /\ store' = [store EXCEPT ![p] = InitializeProject(@, 0)]
    /\ last_status' = GetProjectStatus(p, store'[p])
    /\ UNCHANGED <<tasks, failures, registry>>

\* the service calls an agent awaits return: the agent runs to its end and
\* the request goes on to its next await
AgentReturn(t) ==
    /\ tasks[t].state = "awaiting"
    /\ LET p == tasks[t].proj
           m == Machine(store[p], tasks[t])
           top == TopOf(tasks[t])
           agent_name == OrderedAgents(top.stage)[tasks[t].idx]
           agent_input == AgentInput(tasks[t].input, top.results)
       IN \E o \in AgentResumed(agent_name, agent_input, store[p].files) :
             /\ o.fail => failures < MaxFailures
             /\ failures' = IF o.fail THEN failures + 1 ELSE failures
             /\ Commit(t, p, Run(Finish(m, o)))

Next ==
    \/ \E t \in Tasks, payload \in Payloads : CreateProject(t, payload)
    \/ \E t \in Tasks, p \in ProjectIds, g \in RequestGateIds, rec \in UserRecords :
          ApproveGateRequest(t, p, g, rec)
    \/ \E t \in Tasks, p \in ProjectIds, s \in RequestStageIds : RunStageRequest(t, p, s)
    \/ \E p \in ProjectIds : GetProjectStatusRequest(p)
    \/ \E t \in Tasks : AgentReturn(t)

Spec == Init /\ [][Next]_vars

(***************************************************************************)
(* Vocabulary of the properties.                                           *)
(***************************************************************************)
HasRecord(p, g) == store[p].approvals[g] # NoRecord

GateIndex(g) == CHOOSE i \in 1..Len(GateOrder) : GateOrder[i] = g

IsRun(e) == e.ev = "run"

\* the stages a request has executed, in execution order
StagesRun(tr) == LET runs == SelectSeq(tr, IsRun) IN [i \in 1..Len(runs) |-> runs[i].stage]

\* stage s has no gate after it and is not the last stage
Ungated(s) == s \in StageIds /\ WORKFLOW_STAGES[s].gate_after = None /\ s + 1 \in StageIds

Gated(s) == s \in StageIds /\ WORKFLOW_STAGES[s].gate_after # None

\* the stages whose agents write file f
WriterStages(f) ==
    {s \in StageIds : \E i \in 1..Len(WORKFLOW_STAGES[s].agents) :
        \E o \in AgentCompletions(WORKFLOW_STAGES[s].agents[i], s) : f \in o.writes}

\* a request that came in through POST /projects and was answered 201
Created(t) == tasks[t].state = "done" /\ tasks[t].kind = "create" /\ tasks[t].resp = "201"

(***************************************************************************)
(* C1.  For every stage s with a gate g after it, when run_stage(s) has    *)
(* returned no later stage has been executed and g is still pending: the   *)
(* request that ran s has neither run a stage after s nor written the      *)
(* approval record of g itself.                                            *)
(***************************************************************************)
C1_StageStopsAtItsGate ==
    \A t \in Tasks :
      LET tr == tasks[t].trace IN
      \A i \in DOMAIN tr :
        (tr[i].ev = "return" /\ Gated(tr[i].stage)) =>
          /\ \A j \in 1..(i - 1) : ~(tr[j].ev = "run" /\ tr[j].stage > tr[i].stage)
          /\ \A j \in 1..(i - 1) :
               ~(tr[j].ev = "approve" /\ tr[j].gate = WORKFLOW_STAGES[tr[i].stage].gate_after)
          /\ (i = Len(tr) /\ tasks[t].state = "done") =>
               GetPendingGate(store[tasks[t].proj].approvals) =
                  WORKFLOW_STAGES[tr[i].stage].gate_after

(***************************************************************************)
(* C2.  A stage s with no gate after it and a declared successor calls     *)
(* run_stage(s+1) itself: in the request's history run_stage(s+1) starts   *)
(* right after the last agent of s has delivered its result and before     *)
(* run_stage(s) returns, and the frame of s+1 sits directly on the frame   *)
(* of s.                                                                   *)
(***************************************************************************)
AgentsThenNext(tr, r, s) ==
    LET n == Len(OrderedAgents(s)) IN
    /\ r + 2 * n + 1 <= Len(tr)
    /\ \A a \in 1..n : /\ tr[r + 2 * a - 1] = Event("call", s, None, a)
                       /\ tr[r + 2 * a] = Event("result", s, None, a)
    /\ tr[r + 2 * n + 1] = Event("run", s + 1, None, 0)

C2_UngatedStageRunsNext ==
    \A t \in Tasks :
      LET tr == tasks[t].trace
          st == tasks[t].stack
      IN /\ \A i \in DOMAIN tr :
              (tr[i].ev = "return" /\ Ungated(tr[i].stage)) =>
                 \E r \in 1..(i - 1) : /\ tr[r] = Event("run", tr[i].stage, None, 0)
                                       /\ AgentsThenNext(tr, r, tr[i].stage)
                                       /\ r + 2 * Len(OrderedAgents(tr[i].stage)) + 1 < i
         /\ \A k \in 1..(Len(st) - 1) :
              (st[k].fn = "run_stage" /\ Ungated(st[k].stage)) =>
                 /\ st[k].called = st[k].stage + 1
                 /\ st[k + 1].fn = "run_stage"
                 /\ st[k + 1].stage = st[k].stage + 1

\* a request has answered after running stage 2 and, from it, stage 3
C2_Witness ==
    \E t \in Tasks :
      /\ tasks[t].state = "done"
      /\ \E i, j \in DOMAIN tasks[t].trace :
           /\ i < j
           /\ tasks[t].trace[i] = Event("run", 3, None, 0)
           /\ tasks[t].trace[j] = Event("return", 2, None, 0)

(***************************************************************************)
(* C3.  pending_gate is the first gate, in declaration order, without an   *)
(* approval record, and is None exactly when every gate has one; the       *)
(* status response reports that gate.                                      *)
(***************************************************************************)
C3_PendingGateIsFirstUnapproved ==
    \A p \in ProjectIds :
      LET pg == GetPendingGate(store[p].approvals) IN
      /\ (pg = None) <=> (\A g \in GateIds : HasRecord(p, g))
      /\ pg # None =>
           /\ pg \in GateIds
           /\ ~HasRecord(p, pg)
           /\ \A i \in 1..(GateIndex(pg) - 1) : HasRecord(p, GateOrder[i])
      /\ last_status.proj = p => last_status.pending_gate = pg

\* a status response for a project whose gates were approved out of order
C3_Witness ==
    \E p \in ProjectIds :
      /\ last_status.proj = p
      /\ last_status.pending_gate = "G0"
      /\ HasRecord(p, "G3")
      /\ ~HasRecord(p, "G1")

(***************************************************************************)
(* C4.  A request that starts with run_stage(1) on a fresh project and     *)
(* ends with every gate approved has executed the stages 1..18 in          *)
(* ascending order.                                                        *)
(***************************************************************************)
C4_AllStagesRunBeforeCompletion ==
    \A t \in Tasks :
      (Created(t) /\ \A g \in GateIds : HasRecord(tasks[t].proj, g)) =>
         StagesRun(tasks[t].trace) = [i \in 1..18 |-> i]

(***************************************************************************)
(* C5.  The stage graph is consistent: the stage ids are 1..18, every gate *)
(* is the gate_after of exactly one stage, and that stage is the gate's    *)
(* stage_before.                                                           *)
(***************************************************************************)
C5_StageGraphConsistent ==
    /\ StageIds = 1..18
    /\ \A p \in ProjectIds : DOMAIN GetProjectStatus(p, store[p]).stages = 1..18
    /\ \A g \in GateIds : Cardinality({s \in StageIds : WORKFLOW_STAGES[s].gate_after = g}) = 1
    /\ \A s \in StageIds : WORKFLOW_STAGES[s].gate_after \in GateIds \cup {None}
    /\ \A s \in StageIds, g \in GateIds :
         WORKFLOW_STAGES[s].gate_after = g => DECISION_GATES[g].stage_before = s

(***************************************************************************)
(* C6.  After POST /projects has run stage 1 with its agent succeeding,    *)
(* the status shows stage 1 Completed, stage 2 Pending, stages 3..18       *)
(* Locked and G0 pending.                                                  *)
(***************************************************************************)
C6_ScenarioA ==
    \A t \in Tasks :
      (Created(t) /\ tasks[t].results = <<"success">>) =>
         LET status == GetProjectStatus(tasks[t].proj, store[tasks[t].proj]) IN
         /\ status.stages[1] = "Completed"
         /\ status.stages[2] = "Pending"
         /\ \A s \in 3..18 : status.stages[s] = "Locked"
         /\ status.pending_gate = "G0"

(***************************************************************************)
(* C7.  A stage is Completed exactly when its directory holds a file of    *)
(* any type; otherwise it is Pending exactly when it is not beyond the     *)
(* stage_before of the first unresolved gate (or no gate is unresolved);   *)
(* otherwise Locked.  Stage 1 is never Locked.                             *)
(***************************************************************************)
C7_StatusFromAnyFile ==
    \A p \in ProjectIds :
      LET status == GetProjectStatus(p, store[p])
          pg == GetPendingGate(store[p].approvals)
          has_file(s) == \E f \in store[p].files : f.dir = s
          unlocked(s) == pg = None \/ s <= DECISION_GATES[pg].stage_before
      IN /\ \A s \in StageIds :
              /\ status.stages[s] = "Completed" <=> has_file(s)
              /\ status.stages[s] = "Pending" <=> (~has_file(s) /\ (unlocked(s) \/ s = 1))
              /\ status.stages[s] = "Locked" <=> (~has_file(s) /\ ~unlocked(s) /\ s # 1)
         /\ status.stages[1] # "Locked"

(***************************************************************************)
(* C8.  get_project_status is read-only and idempotent: a status request   *)
(* changes no artifact and no approval record, and when it follows a       *)
(* status request for the same project with nothing in between it returns  *)
(* the same response.                                                      *)
(***************************************************************************)
C8_StatusReadOnlyIdempotent ==
    [][\A p \in ProjectIds :
         last_status'.proj = p =>
            /\ store'[p].files = store[p].files
            /\ store'[p].approvals = store[p].approvals
            /\ last_status.proj = p => last_status' = last_status]_vars

\* a status response for a project that holds artifacts and approval records
C8_Witness ==
    \E p \in ProjectIds :
      /\ last_status.proj = p
      /\ store[p].files # {}
      /\ \E g \in GateIds : HasRecord(p, g)
      /\ \E s \in StageIds : last_status.stages[s] = "Completed"

(***************************************************************************)
(* C9.  The input mapping built when stage k starts has an entry for every *)
(* JSON artifact the agents of the stages before k have written, and none  *)
(* for an artifact written by the agents of stage k or of a later stage.   *)
(***************************************************************************)
C9_InputIsExactlyPriorStages ==
    \A t \in Tasks :
      tasks[t].state = "awaiting" =>
        LET k == TopOf(tasks[t]).stage
            inp == tasks[t].input
            files == store[tasks[t].proj].files
        IN /\ \A f \in files :
                (f.ext = "json" /\ \E s \in WriterStages(f) : s < k) => f.stem \in DOMAIN inp
           /\ \A f \in files :
                (f.ext = "json" /\ f.stem \in DOMAIN inp /\ inp[f.stem] = Val("artifact", f.dir)) =>
                   \A s \in WriterStages(f) : s < k

(***************************************************************************)
(* Input aggregation as a function of the directory contents: SpecGather   *)
(* starts from a project store whose first stage directories hold up to    *)
(* MaxPlanted JSON files with stems drawn from the reserved keys and an    *)
(* ordinary artifact name, and enters run_stage on it up to the point      *)
(* where agent_input is handed to the next agent.                          *)
(***************************************************************************)
MaxPlanted == 2

ReservedKeys == {"initial_data", "stage_id", "stage_results"}

PlantedFiles == {Json(d, stem) : d \in 1..2, stem \in ReservedKeys \cup {"project_charter"}}

PlantedStores == {F \in SUBSET PlantedFiles : Cardinality(F) <= MaxPlanted}

\* result lists of the agents that ran before the next one in the stage
PriorResults == {<<>>, <<"success">>, <<"error">>}

InitGather ==
    /\ \E F \in PlantedStores :
         store = [p \in ProjectIds |-> [NoProject EXCEPT !.exists = TRUE, !.files = F]]
    /\ tasks = [t \in Tasks |-> NewTask]
    /\ failures = 0
    /\ last_status = NoStatus
    /\ registry = AgentNames

\* run_stage(stage_id) up to the construction of agent_input
GatherStep(p, stage_id, initial_data, stage_results) ==
    LET m == RunStageEnter(Machine(store[p],
                 Started("run", p, initial_data, Frame("run_stage", stage_id, None, NoRecord))))
    IN /\ tasks' = [tasks EXCEPT ![1] =
                      [m.task EXCEPT !.state = "gathered",
                                     !.stack[1].results = stage_results,
                                     !.idx = Len(stage_results) + 1]]
       /\ UNCHANGED <<store, failures, last_status, registry>>

NextGather ==
    \E p \in ProjectIds, stage_id \in 1..3, initial_data \in Payloads \cup {0},
       stage_results \in PriorResults :
         GatherStep(p, stage_id, initial_data, stage_results)

SpecGather == InitGather /\ [][NextGather]_vars

(***************************************************************************)
(* C10.  In the input mapping handed to an agent the reserved keys hold    *)
(* the engine's values whatever files the stage directories contain:       *)
(* stage_id is the stage being run, initial_data the manager's payload and *)
(* stage_results the results of the agents already run in the stage.       *)
(***************************************************************************)
C10_ReservedKeysKeepEngineValues ==
    \A t \in Tasks :
      (tasks[t].pc = "agents" /\ tasks[t].stack # <<>>) =>
         LET top == TopOf(tasks[t])
             agent_input == AgentInput(tasks[t].input, top.results)
         IN /\ ReservedKeys \subseteq DOMAIN agent_input
            /\ agent_input["stage_id"] = Val("stage_id", top.stage)
            /\ agent_input["initial_data"] = Val("initial_data", tasks[t].initial_data)
            /\ agent_input["stage_results"] = Val("stage_results", Len(top.results))

(***************************************************************************)
(* C11.  Whenever a stage of a project created at intake hands its input   *)
(* mapping to an agent, also in a request served by a WorkflowManager      *)
(* re-created from the project id, the mapping's initial_data is the       *)
(* payload the project was created with.                                   *)
(***************************************************************************)
C11_InitialDataIsIntakePayload ==
    \A t \in Tasks :
      (tasks[t].state = "awaiting" /\ store[tasks[t].proj].initial_file # 0) =>
         /\ "initial_data" \in DOMAIN tasks[t].input
         /\ tasks[t].input["initial_data"] =
               Val("initial_data", store[tasks[t].proj].initial_file)

(***************************************************************************)
(* C12.  An approve_gate call that finds its gate advances the workflow    *)
(* whatever the approved flag of the record: after writing the record it   *)
(* runs stage stage_before(g)+1 when that stage is declared, and otherwise *)
(* runs no stage and reports that the workflow is complete.                *)
(***************************************************************************)
C12_ApprovalAlwaysAdvances ==
    \A t \in Tasks :
      LET tr == tasks[t].trace IN
      (tasks[t].kind = "approve" /\ tr # <<>> /\ tr[1].ev = "approve") =>
         LET g == tr[1].gate
             next_stage_id == DECISION_GATES[g].stage_before + 1
         IN IF next_stage_id \in StageIds
            THEN /\ Len(tr) >= 2
                 /\ tr[2] = Event("run", next_stage_id, None, 0)
                 /\ tasks[t].state = "done" =>
                      /\ tasks[t].resp = "200"
                      /\ tasks[t].message = "Workflow continues"
            ELSE /\ tasks[t].state = "done"
                 /\ tr = <<Event("approve", 0, g, 0), Event("return", 0, g, 0)>>
                 /\ tasks[t].resp = "200"
                 /\ tasks[t].message = "Workflow complete"

\* a request that posted approved = false for G3 was answered after stage 9 ran
C12_Witness ==
    \E t \in Tasks :
      /\ tasks[t].kind = "approve"
      /\ tasks[t].state = "done"
      /\ tasks[t].resp = "200"
      /\ tasks[t].trace[1] = Event("approve", 0, "G3", 0)
      /\ tasks[t].trace[2] = Event("run", 9, None, 0)
      /\ store[tasks[t].proj].approvals["G3"] = [approved_by |-> "user", approved |-> FALSE]

\* request t is accepted in this step
Accepted(t) == tasks[t].state = "new" /\ tasks'[t].state # "new"

(***************************************************************************)
(* C13.  approve_gate with an undeclared gate id fails with the            *)
(* gate-not-found error (answered 404) and leaves the project as it was:   *)
(* no approval record is written, no stage is executed, no artifact        *)
(* changes.                                                                *)
(***************************************************************************)
C13_UnknownGateChangesNothing ==
    [][\A t \in Tasks :
         (Accepted(t) /\ tasks'[t].call.fn = "approve_gate"
                      /\ tasks'[t].call.gate \notin GateIds) =>
            LET p == tasks'[t].proj IN
            /\ tasks'[t].state = "done"
            /\ tasks'[t].resp = "404"
            /\ tasks'[t].trace = <<Event("raise", 0, None, 0)>>
            /\ store'[p].approvals = store[p].approvals
            /\ store'[p].files = store[p].files
            /\ store'[p].initial_file = store[p].initial_file]_vars

\* an approval of the undeclared gate G7 was refused on a project that has
\* artifacts and approval records
C13_Witness ==
    \E t \in Tasks :
      /\ tasks[t].state = "done"
      /\ tasks[t].call.fn = "approve_gate"
      /\ tasks[t].call.gate = "G7"
      /\ tasks[t].resp = "404"
      /\ store[tasks[t].proj].files # {}
      /\ \E g \in GateIds : HasRecord(tasks[t].proj, g)

(***************************************************************************)
(* C14.  run_stage with a stage id that is not declared raises the         *)
(* invalid-stage error at once: no input is aggregated, no agent is        *)
(* invoked, and approval records and artifacts stay as they were.          *)
(***************************************************************************)
C14_UnknownStageChangesNothing ==
    [][\A t \in Tasks :
         (Accepted(t) /\ tasks'[t].call.fn = "run_stage"
                      /\ tasks'[t].call.stage \notin StageIds) =>
            LET p == tasks'[t].proj IN
            /\ tasks'[t].state = "done"
            /\ tasks'[t].resp = "raised"
            /\ tasks'[t].trace = <<Event("raise", 0, None, 0)>>
            /\ tasks'[t].input = EmptyInput
            /\ tasks'[t].results = <<>>
            /\ store'[p].approvals = store[p].approvals
            /\ store'[p].files = store[p].files]_vars

\* run_stage(19) was refused on a project that has artifacts and approval records
C14_Witness ==
    \E t \in Tasks :
      /\ tasks[t].state = "done"
      /\ tasks[t].call.fn = "run_stage"
      /\ tasks[t].call.stage = 19
      /\ tasks[t].resp = "raised"
      /\ store[tasks[t].proj].files # {}
      /\ \E g \in GateIds : HasRecord(tasks[t].proj, g)

(***************************************************************************)
(* The engine on a project directory that holds files it did not write:    *)
(* SpecPlanted starts from a store whose first stage directories hold up   *)
(* to MaxPlanted of the files of PlantedFiles, readable or corrupt, and    *)
(* serves direct run_stage calls for the two stages of the BIM/CAD agent.  *)
(***************************************************************************)
PlantedOrUnparseable ==
    PlantedFiles \cup {Unparseable(f) : f \in PlantedFiles} \cup {Undecodable(f) : f \in PlantedFiles}

PlantedDirs ==
    {F \in SUBSET PlantedOrUnparseable :
        /\ Cardinality(F) <= MaxPlanted
        /\ \A f, g \in F : SamePath(f, g) => f = g}

\* the stages that declare bim_cad_documentation_agent
BimCadStageIds == {s \in StageIds : \E i \in 1..Len(WORKFLOW_STAGES[s].agents) :
                      WORKFLOW_STAGES[s].agents[i] = "bim_cad_documentation_agent"}

InitPlanted ==
    /\ \E F \in PlantedDirs :
         store = [p \in ProjectIds |-> [NoProject EXCEPT !.exists = TRUE, !.files = F]]
    /\ tasks = [t \in Tasks |-> NewTask]
    /\ failures = 0
    /\ last_status = NoStatus
    /\ registry = AgentNames

NextPlanted ==
    \/ \E t \in Tasks, p \in ProjectIds, s \in BimCadStageIds : RunStageRequest(t, p, s)
    \/ \E t \in Tasks : AgentReturn(t)

SpecPlanted == InitPlanted /\ [][NextPlanted]_vars

(***************************************************************************)
(* C15.  No agent failure leaves run_stage: every agent that run_stage     *)
(* invokes, whether it raises or returns status=error, gets an entry in    *)
(* the stage result list (the loop then goes on and run_stage returns), so *)
(* a request's history never shows an agent call ended by an exception.    *)
(***************************************************************************)
C15_AgentFailureIsRecorded ==
    \A t \in Tasks :
      LET tr == tasks[t].trace IN
      \A i \in DOMAIN tr :
        tr[i].ev = "call" =>
          IF i = Len(tr) THEN tasks[t].state = "awaiting"
          ELSE tr[i + 1] = Event("result", tr[i].stage, None, tr[i].n)

(***************************************************************************)
(* The engine with an incomplete registry: the loader skips an agent       *)
(* module it cannot import, so SpecRegistry starts with any subset of one  *)
(* stage's agents missing from the registry and serves an intake request.  *)
(***************************************************************************)
StageAgents(s) == {WORKFLOW_STAGES[s].agents[i] : i \in 1..Len(WORKFLOW_STAGES[s].agents)}

MissingSets == UNION {SUBSET StageAgents(s) : s \in StageIds}

InitRegistry ==
    /\ store = [p \in ProjectIds |-> NoProject]
    /\ tasks = [t \in Tasks |-> NewTask]
    /\ failures = 0
    /\ last_status = NoStatus
    /\ \E missing \in MissingSets : registry = AgentNames \ missing

NextRegistry ==
    \/ \E t \in Tasks, payload \in Payloads : CreateProject(t, payload)
    \/ \E t \in Tasks : AgentReturn(t)

SpecRegistry == InitRegistry /\ [][NextRegistry]_vars

(***************************************************************************)
(* C16.  The result list of a stage has exactly one entry per declared     *)
(* agent: an agent that is not in the registry gets a 'skipped' entry.     *)
(***************************************************************************)
C16_SkippedEntryForMissingAgent ==
    \A t \in Tasks :
      /\ \A k \in 1..(Len(tasks[t].stack) - 1) :
           tasks[t].stack[k].fn = "run_stage" =>
             Len(tasks[t].stack[k].results) = Len(WORKFLOW_STAGES[tasks[t].stack[k].stage].agents)
      /\ (tasks[t].state = "done" /\ tasks[t].message = "completed") =>
           LET agents == WORKFLOW_STAGES[tasks[t].call.stage].agents IN
           /\ Len(tasks[t].results) = Len(agents)
           /\ \A i \in 1..Len(agents) :
                agents[i] \notin registry => tasks[t].results[i] = "skipped"

\* what follows the agents of stage s, whatever their results
AdvanceEvent(s) ==
    IF WORKFLOW_STAGES[s].gate_after # None
    THEN Event("approve", 0, WORKFLOW_STAGES[s].gate_after, 0)
    ELSE IF s + 1 \in StageIds THEN Event("run", s + 1, None, 0)
    ELSE Event("return", s, None, 0)

\* the history of an execution of stage s in which every registered agent is
\* called in order and delivers a result, and the stage then moves on
ExpectedAfterRun(s) ==
    LET InRegistry(i) == OrderedAgents(s)[i] \in registry
        reg == SelectSeq([i \in 1..Len(OrderedAgents(s)) |-> i], InRegistry)
    IN [k \in 1..(2 * Len(reg) + 1) |->
          IF k = 2 * Len(reg) + 1 THEN AdvanceEvent(s)
          ELSE IF k % 2 = 1 THEN Event("call", s, None, reg[(k + 1) \div 2])
          ELSE Event("result", s, None, reg[k \div 2])]

(***************************************************************************)
(* C17.  No agent outcome stops the pipeline: whichever agents of a stage  *)
(* are missing from the registry or return status=error, the registered    *)
(* agents of the stage are invoked in order, each delivers its result, and *)
(* the stage then approves its gate or runs the next stage, exactly as     *)
(* when every agent succeeds.                                              *)
(***************************************************************************)
C17_NoAgentOutcomeStopsPipeline ==
    \A t \in Tasks :
      LET tr == tasks[t].trace IN
      \A r \in DOMAIN tr :
        tr[r].ev = "run" =>
          LET exp == ExpectedAfterRun(tr[r].stage) IN
          /\ \A k \in DOMAIN exp : r + k <= Len(tr) => tr[r + k] = exp[k]
          /\ r + Len(exp) > Len(tr) =>
               /\ tasks[t].state = "awaiting"
               /\ tr[Len(tr)].ev = "call"

\* a request was answered after a stage whose two agents are both missing
\* and a stage whose agent returned an error
C17_Witness ==
    \E t \in Tasks :
      /\ tasks[t].state = "done"
      /\ tasks[t].resp = "201"
      /\ StageAgents(2) \cap registry = {}
      /\ failures > 0
      /\ \E i \in DOMAIN tasks[t].trace : tasks[t].trace[i] = Event("run", 17, None, 0)

(***************************************************************************)
(* C18.  A gate's approval record is written at most once: once gate g of  *)
(* a project has an approval record, no step changes its content.          *)
(***************************************************************************)
C18_ApprovalRecordImmutable ==
    [][\A p \in ProjectIds, g \in GateIds :
         HasRecord(p, g) => store'[p].approvals[g] = store[p].approvals[g]]_vars

(***************************************************************************)
(* C19.  Once an intake request has run its stages on the fresh project,   *)
(* the status reports every executed stage of which an agent wrote an      *)
(* artifact as Completed, and every executed stage whose agents wrote      *)
(* nothing as Pending.                                                     *)
(***************************************************************************)
C19_ExecutedStageStatus ==
    \A t \in Tasks :
      Created(t) =>
        LET status == GetProjectStatus(tasks[t].proj, store[tasks[t].proj]) IN
        \A i \in DOMAIN tasks[t].trace :
          tasks[t].trace[i].ev = "run" =>
            LET s == tasks[t].trace[i].stage IN
            IF s \in tasks[t].wrote THEN status.stages[s] = "Completed"
            ELSE status.stages[s] = "Pending"

\* project p was created at intake: only create_project saves the payload
CreatedAtIntake(p) == store[p].initial_file # 0

(***************************************************************************)
(* C20.  A status request or a gate approval for a project id that was     *)
(* never created at intake is refused as not found and creates no project  *)
(* state: no directory, no approval record, no stage execution, and no     *)
(* status response.                                                        *)
(***************************************************************************)
C20_UnknownProjectNotFound ==
    [][\A p \in ProjectIds :
         ~CreatedAtIntake(p) =>
            /\ last_status'.proj # p
            /\ \A t \in Tasks :
                 (Accepted(t) /\ tasks'[t].call.fn = "approve_gate" /\ tasks'[t].proj = p) =>
                    /\ tasks'[t].state = "done"
                    /\ tasks'[t].resp = "404"
                    /\ tasks'[t].trace = <<Event("raise", 0, None, 0)>>
                    /\ store'[p] = store[p]
            /\ last_status' # last_status => store'[p] = store[p]]_vars

\* the file of stage_1 .. stage_(k-1) that is read last under a stem
LastRead(files, k, stem) ==
    CHOOSE f \in files :
       /\ f.ext = "json" /\ f.stem = stem /\ f.dir < k
       /\ \A g \in files : (g.ext = "json" /\ g.stem = stem /\ g.dir < k) => g.dir <= f.dir

(***************************************************************************)
(* C21.  A corrupt JSON artifact never aborts a request.  No run_stage     *)
(* call on a project directory that holds corrupt files ends with an       *)
(* exception; in the input mapping of the stage the stem of a corrupt file *)
(* holds the empty mapping and the stem of every readable file holds the   *)
(* file's content; and the status has one of the three statuses for each   *)
(* of the 18 stages, Completed for a directory that holds a JSON file.     *)
(***************************************************************************)
C21_CorruptArtifactNeverAborts ==
    \A t \in Tasks :
      LET p == tasks[t].proj
          tr == tasks[t].trace
      IN /\ \A i \in DOMAIN tr : tr[i].ev # "raise"
         /\ tasks[t].state = "awaiting" =>
              LET k == TopOf(tasks[t]).stage
                  inp == tasks[t].input
              IN \A f \in store[p].files \cap PlantedOrUnparseable :
                   f.dir < k =>
                     /\ f.stem \in DOMAIN inp
                     /\ f = LastRead(store[p].files, k, f.stem) =>
                          inp[f.stem] = IF f.parses THEN Val("artifact", f.dir)
                                        ELSE Val("artifact", 0)
         /\ p \in ProjectIds =>
              LET status == GetProjectStatus(p, store[p]) IN
              /\ DOMAIN status.stages = 1..18
              /\ \A s \in StageIds :
                   /\ status.stages[s] \in {"Completed", "Pending", "Locked"}
                   /\ JsonFiles(store[p].files, s) # {} => status.stages[s] = "Completed"

\* the positions, in declaration order, of the agents of stage s that the
\* registry holds
RegisteredIndexes(s) ==
    LET agents == WORKFLOW_STAGES[s].agents
        InRegistry(i) == agents[i] \in registry
    IN SelectSeq([i \in 1..Len(agents) |-> i], InRegistry)

\* the calls and results of stage s in a request's history
AgentEvents(tr, s) ==
    LET OfStage(e) == e.stage = s /\ e.ev \in {"call", "result"} IN SelectSeq(tr, OfStage)

\* what the agents of stage s have returned to a request
OutcomesOf(outs, s) == LET OfStage(r) == r.stage = s IN SelectSeq(outs, OfStage)

(***************************************************************************)
(* C22.  Within one execution of a stage the agents are invoked one at a   *)
(* time in the order WORKFLOW_STAGES declares them, an agent is called     *)
(* only after the one before it has returned, and the stage_results list   *)
(* an agent is handed holds exactly the results of the agents invoked      *)
(* before it in this execution, in order.                                  *)
(***************************************************************************)
C22_AgentsSequentialInDeclaredOrder ==
    \A t \in Tasks :
      \A s \in StageIds :
        LET evs == AgentEvents(tasks[t].trace, s)
            outs == OutcomesOf(tasks[t].outcomes, s)
            reg == RegisteredIndexes(s)
        IN /\ OrderedAgents(s) = WORKFLOW_STAGES[s].agents
           /\ Len(evs) <= 2 * Len(reg)
           /\ \A k \in DOMAIN evs :
                evs[k] = IF k % 2 = 1 THEN Event("call", s, None, reg[(k + 1) \div 2])
                         ELSE Event("result", s, None, reg[k \div 2])
           /\ Len(outs) = Len(evs) \div 2
           /\ \A j \in DOMAIN outs :
                /\ outs[j].n = reg[j]
                /\ outs[j].seen = [i \in 1..(j - 1) |-> outs[i].status]
           /\ (tasks[t].state = "awaiting" /\ TopOf(tasks[t]).stage = s) =>
                /\ Len(evs) % 2 = 1
                /\ evs[Len(evs)].n = tasks[t].idx
                /\ TopOf(tasks[t]).results = [i \in 1..Len(outs) |-> outs[i].status]
                /\ AgentInput(tasks[t].input, TopOf(tasks[t]).results)["stage_results"] =
                      Val("stage_results", Len(outs))

\* the third agent of stage 10 was handed the differing results of the two
\* agents before it
C22_Witness ==
    \E t \in Tasks :
      \E j \in DOMAIN tasks[t].outcomes :
        /\ tasks[t].outcomes[j].stage = 10
        /\ tasks[t].outcomes[j].n = 3
        /\ tasks[t].outcomes[j].seen = <<"error", "success">>

\* the stages the chain started by approving gate g executes: a stage runs its
\* successor or approves its gate, which runs the stage after it
ChainAfterGate(g) ==
    LET first == DECISION_GATES[g].stage_before + 1
        last == CHOOSE s \in StageIds :
                   /\ WORKFLOW_STAGES[s].gate_after # None
                   /\ DECISION_GATES[WORKFLOW_STAGES[s].gate_after].stage_before + 1 \notin StageIds
    IN IF first \in StageIds THEN [i \in 1..(last - first + 1) |-> first + i - 1] ELSE <<>>

(***************************************************************************)
(* C23.  An approve_gate call for a gate that already has an approval      *)
(* record succeeds: it replaces the stored record by the new one and runs  *)
(* stage stage_before(g)+1 again, and when it is answered (200) the chain  *)
(* of stages after the gate has been executed once more.                   *)
(***************************************************************************)
C23_SecondApprovalRunsAgain ==
    [][\A t \in Tasks :
         LET p == tasks'[t].proj
             g == tasks'[t].call.gate
         IN /\ (Accepted(t) /\ tasks'[t].call.fn = "approve_gate" /\ g \in GateIds
                            /\ HasRecord(p, g)) =>
                 /\ store'[p].approvals[g] = tasks'[t].call.rec
                 /\ tasks'[t].trace[1] = Event("approve", 0, g, 0)
                 /\ DECISION_GATES[g].stage_before + 1 \in StageIds =>
                      tasks'[t].trace[2] = Event("run", DECISION_GATES[g].stage_before + 1, None, 0)
                 /\ tasks'[t].resp # "404"
            /\ (tasks[t].call.fn = "approve_gate" /\ tasks[t].call.gate \in GateIds
                   /\ tasks[t].state # "done" /\ tasks'[t].state = "done") =>
                 /\ tasks'[t].resp = "200"
                 /\ store'[p].approvals[g] = tasks'[t].call.rec
                 /\ StagesRun(tasks'[t].trace) = ChainAfterGate(g)]_vars

\* G3, approved by the system in the intake request's chain, was approved
\* again by a user, and stages 9 to 17 have run again
C23_Witness ==
    \E t \in Tasks :
      /\ tasks[t].state = "done"
      /\ tasks[t].call.fn = "approve_gate"
      /\ tasks[t].call.gate = "G3"
      /\ tasks[t].resp = "200"
      /\ store[tasks[t].proj].approvals["G2"] = SystemRecord
      /\ store[tasks[t].proj].approvals["G3"] \in UserRecords
      /\ StagesRun(tasks[t].trace) = [i \in 1..9 |-> 8 + i]

(***************************************************************************)
(* Overlapping requests.  The handlers are coroutines of one event loop:   *)
(* while a request awaits the service call of an agent, the loop accepts   *)
(* and runs another request, on the same project directory.  SpecOverlap   *)
(* starts from the project an intake request leaves when every agent       *)
(* succeeds, and serves approvals of the last gates without waiting for    *)
(* the requests in flight.  The intake itself is served as one step.       *)
(***************************************************************************)
\* the outcome of an agent whose service calls all answer
Success(a, inp, files) ==
    CHOOSE o \in AgentResumed(a, inp, files) : o.status = "success" /\ ~o.fail

\* a request is run to its answer, every awaited service call answering
RECURSIVE Settle(_)
Settle(m) ==
    IF m.task.state # "awaiting" THEN m
    ELSE LET top == TopOf(m.task)
             agent_name == OrderedAgents(top.stage)[m.task.idx]
             agent_input == AgentInput(m.task.input, top.results)
         IN Settle(Run(Finish(m, Success(agent_name, agent_input, m.proj.files))))

\* the project directory after POST /projects has been answered
IntakeDone(p, payload) ==
    Settle(Run(Machine(InitializeProject(NoProject, payload),
                       Started("create", p, payload, Frame("run_stage", 1, None, NoRecord))))).proj

\* the gates whose approval the overlapping requests post
OverlapGateIds == {"G5", "G6"}

InitOverlap ==
    /\ store = [p \in ProjectIds |-> NoProject]
    /\ tasks = [t \in Tasks |-> NewTask]
    /\ failures = 0
    /\ last_status = NoStatus
    /\ registry = AgentNames

\* POST /projects, served to its answer before any other request arrives
IntakeServed(p, payload) ==
    /\ ~store[p].exists
    /\ store' = [store EXCEPT ![p] = IntakeDone(p, payload)]
    /\ UNCHANGED <<tasks, failures, last_status, registry>>

\* POST /projects/{id}/approve/{gate} for a project the caller has created,
\* accepted whatever the other requests do
ApproveGateOverlapping(t, p, g, rec) ==
    /\ store[p].exists
    /\ tasks[t].state = "new"
    /\ \A u \in Tasks : u < t => tasks[u].state # "new"
    /\ Commit(t, p, Run(Machine(InitializeProject(store[p], 0),
                                Started("approve", p, 0, Frame("approve_gate", 0, g, rec)))))
    /\ UNCHANGED failures

NextOverlap ==
    \/ \E p \in ProjectIds, payload \in Payloads : IntakeServed(p, payload)
    \/ \E t \in Tasks, p \in ProjectIds, g \in OverlapGateIds, rec \in UserRecords :
          ApproveGateOverlapping(t, p, g, rec)
    \/ \E t \in Tasks : AgentReturn(t)

SpecOverlap == InitOverlap /\ [][NextOverlap]_vars

\* request t is executing a stage (it is suspended in an agent call)
InProgress(t) == tasks[t].state = "awaiting"

HasRun(t, s) == \E i \in DOMAIN tasks[t].trace : tasks[t].trace[i] = Event("run", s, None, 0)

(***************************************************************************)
(* C24.  Gate resolution is at most once under concurrency: when approvals *)
(* of the same gate of a project overlap, the stage after the gate is      *)
(* executed by at most one of them, and no two stage executions of one     *)
(* project are in progress at the same time.                               *)
(***************************************************************************)
C24_AtMostOnceGateResolution ==
    \A t, u \in Tasks :
      (t # u /\ tasks[t].proj = tasks[u].proj /\ tasks[t].proj \in ProjectIds) =>
         /\ ~(InProgress(t) /\ InProgress(u))
         /\ (tasks[t].call.fn = "approve_gate" /\ tasks[u].call.fn = "approve_gate"
               /\ tasks[t].call.gate = tasks[u].call.gate
               /\ tasks[t].call.gate \in GateIds
               /\ (InProgress(t) \/ InProgress(u))) =>
              LET s == DECISION_GATES[tasks[t].call.gate].stage_before + 1 IN
              ~(HasRun(t, s) /\ HasRun(u, s))

(***************************************************************************)
(* Two projects.  Each intake request gets its own uuid and its own        *)
(* WorkflowManager; the agents are the shared instances of the registry.   *)
(* SpecIsolated serves intake requests for two project ids without         *)
(* waiting for the request in flight, so that the stage executions of the  *)
(* two projects interleave at the agents' service calls.                   *)
(***************************************************************************)
TwoProjectIds == {1, 2}

InitIsolated ==
    /\ store = [p \in TwoProjectIds |-> NoProject]
    /\ tasks = [t \in Tasks |-> NewTask]
    /\ failures = 0
    /\ last_status = NoStatus
    /\ registry = AgentNames

\* POST /projects, accepted whatever the other requests do; the uuids are
\* handed out in order
CreateProjectOverlapping(t, p, payload) ==
    /\ tasks[t].state = "new"
    /\ \A u \in Tasks : u < t => tasks[u].state # "new"
    /\ ~store[p].exists
    /\ \A q \in TwoProjectIds : q < p => store[q].exists
    /\ Commit(t, p, Run(Machine(InitializeProject(store[p], payload),
                                Started("create", p, payload,
                                        Frame("run_stage", 1, None, NoRecord)))))
    /\ UNCHANGED failures

\* the two callers post different payloads
PayloadOf(p) == p

NextIsolated ==
    \/ \E t \in Tasks, p \in TwoProjectIds : CreateProjectOverlapping(t, p, PayloadOf(p))
    \/ \E t \in Tasks : AgentReturn(t)

SpecIsolated == InitIsolated /\ [][NextIsolated]_vars

\* request t takes a step
Moves(t) == tasks'[t] # tasks[t] /\ tasks'[t] # Answered

(***************************************************************************)
(* C25.  Projects are isolated.  A step of a request of project A changes  *)
(* nothing of another project B: not its directory, its approval records   *)
(* and artifacts, nor the input mapping, the results and the history of a  *)
(* request of B in flight.  And a project's intake request ends as when it *)
(* runs alone: stages 1 to 17 executed once each in order, every gate      *)
(* approved by the system, the input mapping of the stage in progress      *)
(* built from the project's own payload and stage directories only.        *)
(***************************************************************************)
C25_ProjectsIsolated ==
    [][\A t \in Tasks :
         Moves(t) =>
            LET a == tasks'[t].proj IN
            /\ \A b \in DOMAIN store : b # a => store'[b] = store[b]
            /\ \A u \in Tasks :
                 (u # t /\ tasks[u].state # "done") => tasks'[u] = tasks[u]
            /\ tasks'[t].state = "awaiting" =>
                 \A k \in DOMAIN tasks'[t].input :
                    \/ k = "stage_id"
                    \/ tasks'[t].input[k] = Val("initial_data", store'[a].initial_file)
                    \/ \E f \in store'[a].files :
                          f.stem = k /\ tasks'[t].input[k] = Val("artifact", f.dir)
            /\ (tasks'[t].state = "done" /\ tasks'[t].kind = "create") =>
                 /\ tasks'[t].resp = "201"
                 /\ StagesRun(tasks'[t].trace) = [i \in 1..17 |-> i]
                 /\ \A g \in GateIds : store'[a].approvals[g] = SystemRecord]_vars

\* both projects are being created, each request suspended in a stage of its
\* own, and each project directory holding artifacts the other does not
C25_Witness ==
    \E t, u \in Tasks :
      /\ tasks[t].proj = 1 /\ tasks[u].proj = 2
      /\ tasks[t].state = "awaiting" /\ tasks[u].state = "awaiting"
      /\ TopOf(tasks[t]).stage = 3 /\ TopOf(tasks[u]).stage = 9
      /\ store[1].files # store[2].files
      /\ tasks[t].input["initial_data"] # tasks[u].input["initial_data"]
      /\ store[2].approvals["G3"] = SystemRecord
      /\ store[1].approvals["G0"] = SystemRecord
      /\ store[1].approvals["G1"] = NoRecord

(***************************************************************************)
(* Termination.  SpecLive serves, one at a time, approve_gate and           *)
(* run_stage calls on the project an intake request has left, with the     *)
(* assumption that every service call an agent awaits is answered, so      *)
(* that a suspended request is resumed: weak fairness of AgentReturn(t).   *)
(* AgentReturn(t) is enabled                                               *)
(* exactly when request t is suspended, and its steps are the steps that   *)
(* change a suspended request, so WF_vars(AgentReturn(t)) is written with  *)
(* these two in the place of ENABLED <<AgentReturn(t)>>_vars and           *)
(* <<AgentReturn(t)>>_vars.                                                *)
(***************************************************************************)
\* request t, suspended in an agent call, is resumed in this step
Resumes(t) == tasks[t].state = "awaiting" /\ tasks'[t] # tasks[t]

\* an agent call that is awaited can return
CanReturn(t) ==
    LET top == TopOf(tasks[t])
        agent_name == OrderedAgents(top.stage)[tasks[t].idx]
        agent_input == AgentInput(tasks[t].input, top.results)
    IN \E o \in AgentResumed(agent_name, agent_input, store[tasks[t].proj].files) : ~o.fail

Fairness ==
    \A t \in Tasks : []<>(tasks[t].state # "awaiting") \/ []<><<Resumes(t)>>_vars

\* stage ids a direct caller of run_stage passes: the first stage, the last
\* one and an undeclared one
LiveStageIds == {1, 18, 19}

\* gate ids a caller names: the first gate and an undeclared one (the chain
\* after the first gate approves every other gate itself)
LiveGateIds == {"G0", "G7"}

\* the body a caller posts
LiveRecords == {r \in UserRecords : r.approved}

NextLive ==
    \/ \E p \in ProjectIds : IntakeServed(p, PayloadOf(p))
    \/ \E t \in Tasks, p \in ProjectIds, g \in LiveGateIds, rec \in LiveRecords :
          ApproveGateRequest(t, p, g, rec)
    \/ \E t \in Tasks, p \in ProjectIds, s \in LiveStageIds : RunStageRequest(t, p, s)
    \/ \E t \in Tasks : AgentReturn(t)

SpecLive == Init /\ [][NextLive]_vars /\ Fairness

\* the stage ids of the run_stage frames of a chain of nested calls, outermost first
StagesOnStack(stack) ==
    LET IsRunStage(f) == f.fn = "run_stage"
        frames == SelectSeq(stack, IsRunStage)
    IN [i \in 1..Len(frames) |-> frames[i].stage]

StrictlyIncreasing(seq) == \A i, j \in DOMAIN seq : i < j => seq[i] < seq[j]

(***************************************************************************)
(* C26.  Every run_stage and approve_gate call terminates when each agent  *)
(* call returns: along the chain of nested calls the stage ids strictly    *)
(* increase, so a call executes a stage at most once and at most 18 stages *)
(* in total, and a request suspended in an agent call is answered in the   *)
(* end.                                                                    *)
(***************************************************************************)
C26_CallsTerminate ==
    /\ [](\A t \in Tasks :
            /\ StrictlyIncreasing(StagesOnStack(tasks[t].stack))
            /\ StrictlyIncreasing(StagesRun(tasks[t].trace))
            /\ Len(StagesRun(tasks[t].trace)) <= 18
            /\ \A i \in DOMAIN tasks[t].stack : tasks[t].stack[i].fn = "run_stage" =>
                  tasks[t].stack[i].stage \in StageIds
            /\ tasks[t].state = "awaiting" => CanReturn(t))
    /\ \A t \in Tasks : (tasks[t].state = "awaiting") ~> (tasks[t].state = "done")

\* approve_gate("G0") was answered after its chain of nested calls ran the
\* stages 2 to 17
C26_Witness ==
    \E t \in Tasks :
      /\ tasks[t].state = "done"
      /\ tasks[t].call.fn = "approve_gate"
      /\ tasks[t].call.gate = "G0"
      /\ tasks[t].resp = "200"
      /\ StagesRun(tasks[t].trace) = [i \in 1..16 |-> i + 1]
      /\ \E i \in DOMAIN tasks[t].outcomes :
           tasks[t].outcomes[i].stage = 14 /\ tasks[t].outcomes[i].status = "success"

(***************************************************************************)
(* C27.  No stage is executed past an unresolved gate: whenever a request  *)
(* has executed stage s, every gate g with stage_before(g) < s has an      *)
(* approval record (records are never removed, so a record missing now was *)
(* missing when s ran), and the stage a request is executing is not one    *)
(* the status reports as Locked.                                           *)
(***************************************************************************)
C27_NoStageRunsPastUnapprovedGate ==
    \A t \in Tasks :
      LET p == tasks[t].proj IN
      /\ \A i \in DOMAIN tasks[t].trace :
           tasks[t].trace[i].ev = "run" =>
              \A g \in GateIds :
                 DECISION_GATES[g].stage_before < tasks[t].trace[i].stage => HasRecord(p, g)
      /\ tasks[t].state = "awaiting" =>
           GetProjectStatus(p, store[p]).stages[TopOf(tasks[t]).stage] # "Locked"

(***************************************************************************)
(* C28.  A stage is reported Completed only if it has been executed: while *)
(* and after the intake request runs on its fresh project, every stage the *)
(* status reports as Completed is one the request has executed, and every  *)
(* file in the project directory lies under the directory of a stage       *)
(* whose agents write it.                                                  *)
(***************************************************************************)
C28_CompletedOnlyIfExecuted ==
    \A t \in Tasks :
      (tasks[t].kind = "create" /\ tasks[t].state \in {"awaiting", "done"}) =>
         LET p == tasks[t].proj
             status == GetProjectStatus(p, store[p])
         IN /\ \A s \in StageIds : status.stages[s] = "Completed" => HasRun(t, s)
            /\ \A f \in store[p].files : f.dir \in WriterStages(f)

(***************************************************************************)
(* Approvals whose downstream run fails: SpecDownstream starts from a      *)
(* project as a run interrupted after some gate leaves it, with the        *)
(* artifacts of the stages up to that gate and the records of the gates up *)
(* to it, whose first stage directory also holds up to MaxPlanted planted  *)
(* files, readable or corrupt, in place of or beside the artifacts, and    *)
(* serves approvals of the gate before the cost plan stage and of the last *)
(* gate.                                                                   *)
(***************************************************************************)
\* the planted directories that touch stage_1 only
DownstreamDirs == {F \in PlantedDirs : \A f \in F : f.dir = 1}

\* the records run_stage has written once it has passed the first n gates
ApprovedUpTo(n) ==
    [g \in GateIds |-> IF GateIndex(g) <= n THEN SystemRecord ELSE NoRecord]

\* the files the agents of the stages up to the n-th gate have written when
\* each of them succeeded
ArtifactsUpTo(n) ==
    UNION {o.writes : o \in UNION {{x \in AgentFallbackCompletions(a, s) : ~x.fail} :
                                      <<a, s>> \in {<<b, r>> \in AgentNames \X StageIds :
                                          /\ b \in StageAgents(r)
                                          /\ \E g \in GateIds : /\ GateIndex(g) <= n
                                                                  /\ r <= DECISION_GATES[g].stage_before
                                          /\ r < 18}}}

\* the gates a caller approves here: stages 9 and 10 follow G3, no stage G6
DownstreamGateIds == {"G3", "G6"}

InitDownstream ==
    /\ \E F \in DownstreamDirs, n \in {0, 3, 4} :
         store = [p \in ProjectIds |->
                    [NoProject EXCEPT !.exists = TRUE,
                                      !.files = WriteFiles(ArtifactsUpTo(n), F),
                                      !.approvals = ApprovedUpTo(n)]]
    /\ tasks = [t \in Tasks |-> NewTask]
    /\ failures = 0
    /\ last_status = NoStatus
    /\ registry = AgentNames

NextDownstream ==
    \/ \E t \in Tasks, p \in ProjectIds, g \in DownstreamGateIds, rec \in UserRecords :
          ApproveGateRequest(t, p, g, rec)
    \/ \E t \in Tasks : AgentReturn(t)

SpecDownstream == InitDownstream /\ [][NextDownstream]_vars

\* every gate declared before g has an approval record
EarlierApproved(p, g) ==
    \A h \in GateIds : GateIndex(h) < GateIndex(g) => HasRecord(p, h)

NextProgress ==
    \/ \E p \in ProjectIds : IntakeServed(p, PayloadOf(p))
    \/ \E t \in Tasks, p \in ProjectIds, g \in RequestGateIds, rec \in UserRecords :
          ApproveGateRequest(t, p, g, rec)
    \/ \E t \in Tasks, p \in ProjectIds, s \in RequestStageIds : RunStageRequest(t, p, s)
    \/ \E p \in ProjectIds : GetProjectStatusRequest(p)
    \/ \E t \in Tasks : AgentReturn(t)

SpecProgress == Init /\ [][NextProgress]_vars

\* the order of the reported statuses
StatusRank(status) ==
    IF status = "Locked" THEN 0 ELSE IF status = "Pending" THEN 1 ELSE 2

\* the position of the pending gate, past the last gate when none is pending
PendingIndex(approvals) ==
    LET pending == GetPendingGate(approvals)
    IN IF pending = None THEN Len(GateOrder) + 1 ELSE GateIndex(pending)

\* the stage up to which get_project_status reports Pending
UnlockedUntilStage(approvals) ==
    LET pending_gate == GetPendingGate(approvals)
    IN IF pending_gate # None THEN DECISION_GATES[pending_gate].stage_before ELSE 18

(***************************************************************************)
(* C30.  Project progress is monotone: no step of a run_stage,             *)
(* approve_gate, intake or get_project_status call removes the approval    *)
(* record of a gate or moves the pending gate back to an earlier gate, and *)
(* no step takes the reported status of a stage from Completed to Pending  *)
(* or Locked, or from Pending to Locked.                                   *)
(***************************************************************************)
C30_ProgressMonotone ==
    [][\A p \in ProjectIds :
         \/ store'[p] = store[p]
         \/ /\ \A g \in GateIds :
                 store[p].approvals[g] # NoRecord => store'[p].approvals[g] # NoRecord
            /\ PendingIndex(store[p].approvals) <= PendingIndex(store'[p].approvals)
            /\ LET before == UnlockedUntilStage(store[p].approvals)
                   after == UnlockedUntilStage(store'[p].approvals)
               IN \A s \in StageIds :
                     StatusRank(StageStatus(store[p].files, s, before))
                        <= StatusRank(StageStatus(store'[p].files, s, after))]_vars

\* a project on which a later request ran: its last gate is approved while an
\* earlier one is pending, a stage is Completed, another Pending and another
\* Locked, and the request has been answered
C30_Witness ==
    \E p \in ProjectIds, t \in Tasks :
      LET status == GetProjectStatus(p, store[p]) IN
      /\ tasks[t].state = "done"
      /\ tasks[t].proj = p
      /\ t > 1
      /\ store[p].approvals["G6"] # NoRecord
      /\ status.pending_gate \in GateIds
      /\ \E s \in StageIds : status.stages[s] = "Completed"
      /\ \E s \in StageIds : status.stages[s] = "Pending"

====
